---------------------------- MODULE Spec2Model ----------------------------
(***************************************************************************)
(* Model of packages/angular_devkit/build_angular/src/babel/webpack-loader *)
(* (the babel-loader customisation of the Angular CLI).                    *)
(*                                                                         *)
(* State: the three module-level capability caches (needsLinking,          *)
(* linkerPluginCreator, i18nPluginCreators) and, per invocation of         *)
(* customOptions, the handler's position, inputs, locals and outputs.      *)
(* One action per run of the handler between two suspension points.        *)
(***************************************************************************)
EXTENDS Integers, Sequences, FiniteSets, TLC

(***************************************************************************)
(* JavaScript values.  An optional value (T | undefined) is a sequence of  *)
(* length at most one.  A value that is serialised is a tagged record;     *)
(* an object is the sequence of its <<key, value>> pairs in insertion      *)
(* order, which is the order JSON.stringify walks.                         *)
(***************************************************************************)
Undefined == <<>>

Def(v) == <<v>>

JBool(b) == [kind |-> "boolean", val |-> IF b THEN "true" ELSE "false"]

JStr(s) == [kind |-> "string", val |-> s]

JFn(name) == [kind |-> "function", val |-> name]

JUndef == [kind |-> "undefined", val |-> ""]

JArr(elems) == [kind |-> "array", val |-> elems]

JObj(pairs) == [kind |-> "object", val |-> pairs]

\* typescript's ScriptTarget enum, as used on lines 104-108
ES3 == 0

ES5 == 1

ES2015 == 2

ES2016 == 3

ES2017 == 4

(***************************************************************************)
(* A path is the sequence of the pieces the loader's regular expressions   *)
(* tell apart: separators ("/" or "\"), names, and extensions (".ts").     *)
(* "compiler-cli" is the two pieces "compiler", "-cli".                    *)
(***************************************************************************)
IsSep(t) == t \in {"/", "\\"}

\* SkipsLinking with the pattern's `x?` dropped: /...|\.ts$/
SkipsLinking_NoTsx(path) ==
    \/ \E i \in 1..(Len(path) - 3) :
          /\ IsSep(path[i])
          /\ path[i + 1] = "@angular"
          /\ IsSep(path[i + 2])
          /\ path[i + 3] \in {"compiler", "core"}
    \/ (Len(path) > 0 /\ path[Len(path)] \in {".ts"})

\* line 44: /[\\/]@angular[\\/](?:compiler|core)|\.tsx?$/.test(path)
SkipsLinking(path) ==
    \/ \E i \in 1..(Len(path) - 3) :
          /\ IsSep(path[i])
          /\ path[i + 1] = "@angular"
          /\ IsSep(path[i + 2])
          /\ path[i + 3] \in {"compiler", "core"}
    \/ (Len(path) > 0 /\ path[Len(path)] \in {".ts", ".tsx"})

\* /\.[cm]?js$/.test(this.resourcePath)
IsPlainJs(path) ==
    Len(path) > 0 /\ path[Len(path)] \in {".js", ".cjs", ".mjs"}

\* /[\\/][_f]?esm2015[\\/]/.test(this.resourcePath)
InEsm2015Dir(path) ==
    \E i \in 1..(Len(path) - 2) :
       /\ IsSep(path[i])
       /\ path[i + 1] \in {"esm2015", "_esm2015", "fesm2015"}
       /\ IsSep(path[i + 2])

\* /[\\/]@angular[\\/](?:compiler|localize)/.test(this.resourcePath)
InCompilerOrLocalize(path) ==
    \E i \in 1..(Len(path) - 3) :
       /\ IsSep(path[i])
       /\ path[i + 1] = "@angular"
       /\ IsSep(path[i + 2])
       /\ path[i + 3] \in {"compiler", "localize"}

\* /[\\/]node_modules[\\/]@angular[\\/]/.test(this.resourcePath)
IsAngularPackage(path) ==
    \E i \in 1..(Len(path) - 4) :
       /\ IsSep(path[i])
       /\ path[i + 1] = "node_modules"
       /\ IsSep(path[i + 2])
       /\ path[i + 3] = "@angular"
       /\ IsSep(path[i + 4])

\* source.includes(marker): the source text is the sequence of its tokens
Includes(source, marker) == \E i \in 1..Len(source) : source[i] = marker


(***************************************************************************)
(* Object helpers: property read, property write (an existing key keeps    *)
(* its position, a new key is appended) and object spread.                 *)
(***************************************************************************)
HasProp(pairs, k) == \E i \in 1..Len(pairs) : pairs[i][1] = k

GetProp(pairs, k) ==
    IF HasProp(pairs, k)
    THEN pairs[CHOOSE i \in 1..Len(pairs) : pairs[i][1] = k][2]
    ELSE JUndef

RECURSIVE ReplaceProp(_, _, _)
ReplaceProp(pairs, k, v) ==
    IF pairs = <<>> THEN <<>>
    ELSE <<IF pairs[1][1] = k THEN <<k, v>> ELSE pairs[1]>>
         \o ReplaceProp(Tail(pairs), k, v)

SetProp(pairs, k, v) ==
    IF HasProp(pairs, k) THEN ReplaceProp(pairs, k, v) ELSE Append(pairs, <<k, v>>)

RECURSIVE Spread(_, _)
\* { ...into, ...from }
Spread(into, from) ==
    IF from = <<>> THEN into
    ELSE Spread(SetProp(into, from[1][1], from[1][2]), Tail(from))

(***************************************************************************)
(* JSON.stringify, as a sequence of output tokens.  A property whose value *)
(* is undefined or a function is omitted; such an array element is null.   *)
(***************************************************************************)
Unserialisable(v) == v.kind \in {"undefined", "function"}

RECURSIVE Stringify(_)
RECURSIVE StringifyProps(_, _)
RECURSIVE StringifyElems(_, _)

StringifyProps(pairs, first) ==
    IF pairs = <<>> THEN <<>>
    ELSE IF Unserialisable(pairs[1][2]) THEN StringifyProps(Tail(pairs), first)
    ELSE (IF first THEN <<>> ELSE <<",">>)
         \o <<"\"", pairs[1][1], "\"", ":">>
         \o Stringify(pairs[1][2])
         \o StringifyProps(Tail(pairs), FALSE)

StringifyElems(elems, first) ==
    IF elems = <<>> THEN <<>>
    ELSE (IF first THEN <<>> ELSE <<",">>)
         \o (IF Unserialisable(elems[1]) THEN <<"null">> ELSE Stringify(elems[1]))
         \o StringifyElems(Tail(elems), FALSE)

Stringify(v) ==
    CASE v.kind = "object" -> <<"{">> \o StringifyProps(v.val, TRUE) \o <<"}">>
      [] v.kind = "array" -> <<"[">> \o StringifyElems(v.val, TRUE) \o <<"]">>
      [] v.kind = "string" -> <<"\"", v.val, "\"">>
      [] v.kind = "boolean" -> <<v.val>>

(***************************************************************************)
(* customOptions: the synchronous pieces of the handler.                   *)
(***************************************************************************)
\* lines 62-69
BaseOptions ==
    << <<"babelrc", JBool(FALSE)>>, <<"configFile", JBool(FALSE)>>,
       <<"compact", JBool(FALSE)>>, <<"cacheCompression", JBool(FALSE)>>,
       <<"sourceType", JStr("unambiguous")>>, <<"inputSourceMap", JBool(FALSE)>> >>

\* require('../../package.json').version
BuildAngularVersion == JStr("version")

\* the value the detector capability load yields (linkerModule.needsLinking)
NeedsLinkingFn == JFn("needsLinking")

\* linkerBabelModule.createEs2015LinkerPlugin
CreateEs2015LinkerPlugin == JFn("createEs2015LinkerPlugin")

\* the module object of @angular/localize/tools
LocalizeTools ==
    JObj(<< <<"makeEs2015TranslatePlugin", JFn("makeEs2015TranslatePlugin")>>,
            <<"makeEs5TranslatePlugin", JFn("makeEs5TranslatePlugin")>>,
            <<"makeLocalePlugin", JFn("makeLocalePlugin")>> >>)

\* the external detector needsLinking(path, source) of @angular/compiler-cli/linker:
\* a file needs linking when it holds a partial declaration
LinkerNeedsLinking(path, source) == Includes(source, "ngDeclare")

\* if (x) for x: boolean | undefined
Truthy(opt) == opt # Undefined /\ opt[1] = TRUE

\* HasPlugins without the length test
HasPlugins_AnyArray(rawOptions) ==
    GetProp(rawOptions, "plugins").kind = "array"

\* line 74: Array.isArray(rawOptions.plugins) && rawOptions.plugins.length > 0
HasPlugins(rawOptions) ==
    LET plugins == GetProp(rawOptions, "plugins")
    IN  plugins.kind = "array" /\ Len(plugins.val) > 0

\* lines 76-81
InitialCustomOptions ==
    [forceAsyncTransformation |-> FALSE,
     forceES5 |-> FALSE,
     angularLinker |-> Undefined,
     i18n |-> Undefined,
     optimize |-> Undefined]

\* lines 95-100
SetAngularLinker(c, creator) ==
    [c EXCEPT !.custom.angularLinker =
                  Def([shouldLink |-> TRUE,
                       jitMode |-> (c.aot # Def(TRUE)),
                       linkerPluginCreator |-> creator]),
              !.shouldProcess = TRUE]

\* ForceES5 with <= for <
ForceES5_Inclusive(esTarget) == esTarget # Undefined /\ esTarget[1] <= ES2015

\* lines 105-107
ForceES5(esTarget) == esTarget # Undefined /\ esTarget[1] < ES2015

\* ForceAsyncTransformation without the esm2015 directory test
ForceAsync_NoDirCheck(esTarget, path, source) ==
    /\ esTarget # Undefined
    /\ ~(esTarget[1] < ES2015)
    /\ (esTarget[1] >= ES2017 \/ IsPlainJs(path))
    /\ Includes(source, "async")

\* lines 105-115
ForceAsyncTransformation(esTarget, path, source) ==
    /\ esTarget # Undefined
    /\ ~(esTarget[1] < ES2015)
    /\ (esTarget[1] >= ES2017 \/ IsPlainJs(path))
    /\ ~InEsm2015Dir(path) /\ Includes(source, "async")

\* lines 103-117
AnalyzeTarget(c) ==
    LET es5 == ForceES5(c.scriptTarget)
        async == ForceAsyncTransformation(c.scriptTarget, c.resourcePath, c.source)
    IN  [c EXCEPT !.custom.forceES5 = es5,
                  !.custom.forceAsyncTransformation = async,
                  !.shouldProcess =
                      IF c.scriptTarget # Undefined THEN @ \/ async \/ es5 ELSE @]

\* lines 120-124
WantsI18n(c) ==
    /\ c.i18n # Undefined
    /\ ~InCompilerOrLocalize(c.resourcePath)
    /\ Includes(c.source, "$localize")

\* lines 140-144; creators is the cache i18nPluginCreators as read on line 142
AttachI18n(c, creators) ==
    [c EXCEPT !.custom.i18n =
                  Def(SetProp(c.i18n[1], "i18nPluginCreators",
                              IF creators = Undefined THEN JUndef ELSE creators[1])),
              !.shouldProcess = TRUE]

\* OptimizeFlags with looseEnums and wrapDecorators exchanged
OptimizeFlags_Swapped(path, sideEffectFree) ==
    [looseEnums |-> Truthy(sideEffectFree),
     pureTopLevel |-> IsAngularPackage(path),
     wrapDecorators |-> IsAngularPackage(path)]

\* lines 148-157
OptimizeFlags(path, sideEffectFree) ==
    [looseEnums |-> IsAngularPackage(path),
     pureTopLevel |-> IsAngularPackage(path),
     wrapDecorators |-> Truthy(sideEffectFree)]

\* lines 147-160
AnalyzeOptimize(c) ==
    IF Truthy(c.optimize)
    THEN [c EXCEPT !.custom.optimize = Def(OptimizeFlags(c.resourcePath, c.sideEffectFree)),
                   !.shouldProcess = TRUE]
    ELSE c

\* customOptions as the object JSON.stringify walks (property order of lines 76-81, 149)
CustomOptionsObject(custom) ==
    LET linker == IF custom.angularLinker = Undefined THEN JUndef
                  ELSE JObj(<< <<"shouldLink", JBool(custom.angularLinker[1].shouldLink)>>,
                               <<"jitMode", JBool(custom.angularLinker[1].jitMode)>>,
                               <<"linkerPluginCreator",
                                 custom.angularLinker[1].linkerPluginCreator>> >>)
        i18n == IF custom.i18n = Undefined THEN JUndef ELSE JObj(custom.i18n[1])
        base == << <<"forceAsyncTransformation", JBool(custom.forceAsyncTransformation)>>,
                   <<"forceES5", JBool(custom.forceES5)>>,
                   <<"angularLinker", linker>>,
                   <<"i18n", i18n>> >>
    IN  JObj(IF custom.optimize = Undefined THEN base
             ELSE Append(base,
                    <<"optimize",
                      JObj(<< <<"looseEnums", JBool(custom.optimize[1].looseEnums)>>,
                              <<"pureTopLevel", JBool(custom.optimize[1].pureTopLevel)>>,
                              <<"wrapDecorators",
                                JBool(custom.optimize[1].wrapDecorators)>> >>)>>))

\* lines 166-171
CacheIdentifier(custom, rawOptions) ==
    Stringify(JObj(<< <<"buildAngular", BuildAngularVersion>>,
                      <<"customOptions", CustomOptionsObject(custom)>>,
                      <<"baseOptions", JObj(BaseOptions)>>,
                      <<"rawOptions", JObj(rawOptions)>> >>))

\* loaderOptions.ignore = [() => true]
IgnoreAll == JArr(<<JFn("() => true")>>)

\* lines 163-178
LoaderOptions(c) ==
    LET merged == SetProp(Spread(BaseOptions, c.rawOptions), "cacheIdentifier",
                          [kind |-> "json",
                           val |-> CacheIdentifier(c.custom, c.rawOptions)])
    IN  IF ~c.shouldProcess THEN SetProp(merged, "ignore", IgnoreAll) ELSE merged

\* lines 147-180: the handler from the optimize block to its return
Finish(c) ==
    LET o == AnalyzeOptimize(c)
    IN  [o EXCEPT !.loader = LoaderOptions(o), !.pc = "done"]


(***************************************************************************)
(* config: the plugin and preset lists handed back to babel-loader.        *)
(***************************************************************************)
Plugin(name, options) == [plugin |-> name, options |-> options]

\* ConfigPlugins with metadata elision pushed after the two adjustments
ConfigPlugins_ElideLast(existing, custom) ==
    LET plugins == IF existing = Undefined THEN <<>> ELSE existing[1]
    IN  IF custom.optimize # Undefined
        THEN plugins
             \o (IF custom.optimize[1].pureTopLevel
                 THEN <<Plugin("./plugins/pure-toplevel-functions", <<>>)>>
                 ELSE <<>>)
             \o << Plugin("./plugins/adjust-typescript-enums",
                          << <<"loose", custom.optimize[1].looseEnums>> >>),
                   Plugin("./plugins/adjust-static-class-members",
                          << <<"wrapDecorators", custom.optimize[1].wrapDecorators>> >>),
                   Plugin("./plugins/elide-angular-metadata", <<>>) >>
        ELSE plugins

\* lines 183-200
ConfigPlugins(existing, custom) ==
    LET plugins == IF existing = Undefined THEN <<>> ELSE existing[1]
    IN  IF custom.optimize # Undefined
        THEN plugins
             \o (IF custom.optimize[1].pureTopLevel
                 THEN <<Plugin("./plugins/pure-toplevel-functions", <<>>)>>
                 ELSE <<>>)
             \o << Plugin("./plugins/elide-angular-metadata", <<>>),
                   Plugin("./plugins/adjust-typescript-enums",
                          << <<"loose", custom.optimize[1].looseEnums>> >>),
                   Plugin("./plugins/adjust-static-class-members",
                          << <<"wrapDecorators", custom.optimize[1].wrapDecorators>> >>) >>
        ELSE plugins

\* lines 212-227: [require('./presets/application').default, {...customOptions, diagnosticReporter}]
ApplicationPreset(custom) ==
    Plugin("./presets/application",
           << <<"forceAsyncTransformation", custom.forceAsyncTransformation>>,
              <<"forceES5", custom.forceES5>>,
              <<"angularLinker", custom.angularLinker>>,
              <<"i18n", custom.i18n>>,
              <<"optimize", custom.optimize>>,
              <<"diagnosticReporter", "diagnosticReporter">> >>)

\* lines 209-229
ConfigPresets(existing, custom) ==
    (IF existing = Undefined THEN <<>> ELSE existing[1]) \o <<ApplicationPreset(custom)>>

(***************************************************************************)
(* State.                                                                  *)
(***************************************************************************)
VARIABLES
    needsLinking,         \* line 27: the cached detector, or Undefined
    linkerPluginCreator,  \* line 32: the cached linker plugin factory, or Undefined
    i18nPluginCreators,   \* line 39: the cached localize plugin creators, or Undefined
    calls,                \* the invocations of customOptions / config, by invocation
    loadCount,            \* per module specifier, the loadEsmModule calls made so far
    loadFailed            \* per module specifier, whether a load of it has been rejected

vars == <<needsLinking, linkerPluginCreator, i18nPluginCreators, calls, loadCount, loadFailed>>

\* the number of invocations the host bundler runs concurrently
NumCalls == 2

Procs == 1..NumCalls

LinkerModule == "@angular/compiler-cli/linker"

LinkerBabelModule == "@angular/compiler-cli/linker/babel"

LocalizeToolsModule == "@angular/localize/tools"

Modules == {LinkerModule, LinkerBabelModule, LocalizeToolsModule}

\* an invocation that has not started
IdleCall ==
    [pc |-> "idle",
     resourcePath |-> <<>>, source |-> <<>>, sideEffectFree |-> Undefined,
     i18n |-> Undefined, scriptTarget |-> Undefined, aot |-> Undefined,
     optimize |-> Undefined, rawOptions |-> <<>>,
     shouldProcess |-> FALSE, custom |-> InitialCustomOptions, loader |-> <<>>,
     linkResult |-> FALSE,
     detectorCalled |-> FALSE, detectorLoadRequested |-> FALSE, i18nLoadFailed |-> FALSE,
     configuration |-> [plugins |-> Undefined, presets |-> Undefined,
                        inputSourceMap |-> Undefined],
     options |-> [plugins |-> <<>>, presets |-> <<>>, inputSourceMap |-> FALSE]]

Init ==
    /\ needsLinking = Undefined
    /\ linkerPluginCreator = Undefined
    /\ i18nPluginCreators = Undefined
    /\ calls = [p \in Procs |-> IdleCall]
    /\ loadCount = [m \in Modules |-> 0]
    /\ loadFailed = [m \in Modules |-> FALSE]

\* loadEsmModule(m) is called: one more load of m is under way
RequestLoad(m) == loadCount' = [loadCount EXCEPT ![m] = @ + 1]

\* lines 103-180, run without suspension unless the localize tools have to be loaded
ContinueFromTarget(c, creators) ==
    LET t == AnalyzeTarget(c)
    IN  IF WantsI18n(t)
        THEN IF creators = Undefined
             THEN [t EXCEPT !.pc = "loadI18n"]
             ELSE Finish(AttachI18n(t, creators))
        ELSE Finish(t)

\* lines 72-84 and 41-56: entry of customOptions, for an input of the pool, up to its
\* first suspension
Start(p, pool) ==
    /\ calls[p].pc = "idle"
    /\ \E in \in pool :
        LET c == [IdleCall EXCEPT !.resourcePath = in.resourcePath,
                                  !.source = in.source,
                                  !.sideEffectFree = in.sideEffectFree,
                                  !.i18n = in.i18n,
                                  !.scriptTarget = in.scriptTarget,
                                  !.aot = in.aot,
                                  !.optimize = in.optimize,
                                  !.rawOptions = in.rawOptions,
                                  !.shouldProcess = HasPlugins(in.rawOptions)]
        IN  IF SkipsLinking(c.resourcePath)
            THEN /\ calls' = [calls EXCEPT ![p] = [c EXCEPT !.pc = "awaitLinking",
                                                           !.linkResult = FALSE]]
                 /\ UNCHANGED loadCount
            ELSE IF needsLinking = Undefined
            THEN /\ calls' = [calls EXCEPT ![p] = [c EXCEPT !.pc = "loadDetector",
                                                           !.detectorLoadRequested = TRUE]]
                 /\ RequestLoad(LinkerModule)
            ELSE /\ calls' = [calls EXCEPT ![p] =
                        [c EXCEPT !.pc = "awaitLinking",
                                  !.detectorCalled = TRUE,
                                  !.linkResult =
                                      LinkerNeedsLinking(c.resourcePath, c.source)]]
                 /\ UNCHANGED loadCount
    /\ UNCHANGED <<needsLinking, linkerPluginCreator, i18nPluginCreators, loadFailed>>

\* lines 52-58: the detector module arrives
DetectorLoaded(p) ==
    /\ calls[p].pc = "loadDetector"
    /\ needsLinking' = Def(NeedsLinkingFn)
    /\ calls' = [calls EXCEPT ![p].pc = "awaitLinking",
                              ![p].detectorCalled = TRUE,
                              ![p].linkResult =
                                  LinkerNeedsLinking(calls[p].resourcePath, calls[p].source)]
    /\ UNCHANGED <<linkerPluginCreator, i18nPluginCreators, loadCount, loadFailed>>

\* line 52 rejects: requiresLinking and then customOptions reject
DetectorLoadFailed(p) ==
    /\ calls[p].pc = "loadDetector"
    /\ calls' = [calls EXCEPT ![p].pc = "failed"]
    /\ loadFailed' = [loadFailed EXCEPT ![LinkerModule] = TRUE]
    /\ UNCHANGED <<needsLinking, linkerPluginCreator, i18nPluginCreators, loadCount>>

\* lines 84-136: customOptions resumes with the result of requiresLinking
AfterLinking(p) ==
    /\ calls[p].pc = "awaitLinking"
    /\ IF calls[p].linkResult /\ linkerPluginCreator = Undefined
       THEN /\ calls' = [calls EXCEPT ![p].pc = "loadFactory"]
            /\ RequestLoad(LinkerBabelModule)
       ELSE LET c == IF calls[p].linkResult
                     THEN SetAngularLinker(calls[p], linkerPluginCreator[1])
                     ELSE calls[p]
                n == ContinueFromTarget(c, i18nPluginCreators)
            IN  /\ calls' = [calls EXCEPT ![p] = n]
                /\ IF n.pc = "loadI18n" THEN RequestLoad(LocalizeToolsModule)
                   ELSE UNCHANGED loadCount
    /\ UNCHANGED <<needsLinking, linkerPluginCreator, i18nPluginCreators, loadFailed>>

\* lines 89-136: the linker plugin module arrives
FactoryLoaded(p) ==
    /\ calls[p].pc = "loadFactory"
    /\ linkerPluginCreator' = Def(CreateEs2015LinkerPlugin)
    /\ LET n == ContinueFromTarget(SetAngularLinker(calls[p], CreateEs2015LinkerPlugin),
                                   i18nPluginCreators)
       IN  /\ calls' = [calls EXCEPT ![p] = n]
           /\ IF n.pc = "loadI18n" THEN RequestLoad(LocalizeToolsModule)
              ELSE UNCHANGED loadCount
    /\ UNCHANGED <<needsLinking, i18nPluginCreators, loadFailed>>

\* line 89 rejects: customOptions rejects
FactoryLoadFailed(p) ==
    /\ calls[p].pc = "loadFactory"
    /\ calls' = [calls EXCEPT ![p].pc = "failed"]
    /\ loadFailed' = [loadFailed EXCEPT ![LinkerBabelModule] = TRUE]
    /\ UNCHANGED <<needsLinking, linkerPluginCreator, i18nPluginCreators, loadCount>>

\* lines 136-180: the localize tools arrive
I18nLoaded(p) ==
    /\ calls[p].pc = "loadI18n"
    /\ i18nPluginCreators' = Def(LocalizeTools)
    /\ calls' = [calls EXCEPT ![p] = Finish(AttachI18n(calls[p], Def(LocalizeTools)))]
    /\ UNCHANGED <<needsLinking, linkerPluginCreator, loadCount, loadFailed>>

\* lines 136-180: the load rejects, catch {} swallows it, line 142 reads the cache
I18nLoadFailed(p) ==
    /\ calls[p].pc = "loadI18n"
    /\ calls' = [calls EXCEPT ![p] =
                     Finish(AttachI18n([calls[p] EXCEPT !.i18nLoadFailed = TRUE],
                                       i18nPluginCreators))]
    /\ loadFailed' = [loadFailed EXCEPT ![LocalizeToolsModule] = TRUE]
    /\ UNCHANGED <<needsLinking, linkerPluginCreator, i18nPluginCreators, loadCount>>

(***************************************************************************)
(* Inputs.                                                                 *)
(***************************************************************************)
File(dir, name, ext) == dir \o <<"/", name, ext>>

SrcDir == <<"/", "src">>

LibDir == <<"/", "node_modules", "/", "lib">>

AngularDir(pkg) == <<"/", "node_modules", "/", "@angular", "/">> \o pkg

Extensions == {".ts", ".tsx", ".js", ".cjs", ".mjs", ".json"}

Dirs ==
    { SrcDir,
      LibDir \o <<"/", "esm2015">>,
      LibDir \o <<"/", "_esm2015">>,
      LibDir \o <<"/", "fesm2015">>,
      AngularDir(<<"core">>) \o <<"/", "fesm2015">>,
      AngularDir(<<"compiler">>),
      AngularDir(<<"compiler", "-cli">>),
      AngularDir(<<"localize">>),
      <<"/", "packages", "/", "@angular", "/", "core">>,
      <<"\\", "node_modules", "\\", "@angular", "\\", "common">> }

\* resource paths are absolute: the bundler resolves every module it loads
Paths ==
    {File(d, "index", e) : d \in Dirs, e \in Extensions}
    \cup { SrcDir \o <<"/", "main", ".d", ".ts">>,
           SrcDir \o <<"/", "main", ".js", ".map">>,
           LibDir \o <<"/", "esm2015">>,
           <<"/", "node_modules", "/", "ts">> }

Sources ==
    { <<>>, <<"ngDeclare">>, <<"async">>, <<"$localize">>,
      <<"ngDeclare", "async">>, <<"async", "$localize">>, <<"ngDeclare", "$localize">>,
      <<"ngDeclare", "async", "$localize">> }

ScriptTargets == {Undefined, Def(ES3), Def(ES5), Def(ES2015), Def(ES2016), Def(ES2017)}

OptionalBooleans == {Undefined, Def(FALSE), Def(TRUE)}

\* the caller's i18n option: a localisation config, or none
I18nOptions == {Undefined, Def(<< <<"locale", JStr("fr")>> >>)}

PluginA == JFn("pluginA")

PluginB == JFn("pluginB")

\* every input of a single resolution
OptionInputs ==
    [resourcePath : Paths,
     source : Sources,
     sideEffectFree : {Undefined, Def(TRUE)},
     i18n : I18nOptions,
     scriptTarget : ScriptTargets,
     aot : {Undefined, Def(TRUE)},
     optimize : OptionalBooleans,
     rawOptions : { <<>>,
                    << <<"plugins", JArr(<<>>)>> >>,
                    << <<"plugins", JArr(<<PluginA>>)>> >> }]

\* the inputs of the concurrent resolutions: files that are linked (a library with
\* partial declarations) and files that are not (application sources, @angular/core,
\* @angular/compiler), with or without markers, under two sets of loader options
CacheInputs ==
    [resourcePath : { File(LibDir \o <<"/", "fesm2015">>, "index", ".mjs"),
                      File(SrcDir, "main", ".ts"),
                      File(SrcDir, "app", ".tsx"),
                      File(AngularDir(<<"core">>) \o <<"/", "fesm2015">>, "core", ".mjs"),
                      File(AngularDir(<<"compiler">>), "index", ".js") },
     source : { <<"ngDeclare", "$localize">>, <<>> },
     sideEffectFree : {Undefined},
     i18n : {Def(<< <<"locale", JStr("fr")>> >>)},
     scriptTarget : {Def(ES2017)},
     aot : {Def(TRUE)},
     optimize : {Undefined},
     rawOptions : { << <<"plugins", JArr(<<PluginA>>)>> >>,
                    << <<"plugins", JArr(<<PluginB>>)>> >> }]

\* babel's partial configuration as config receives it
Configurations ==
    { [plugins |-> Undefined, presets |-> Undefined, inputSourceMap |-> Undefined],
      [plugins |-> Def(<<Plugin("pluginB", <<>>), Plugin("pluginA", <<>>)>>),
       presets |-> Def(<<Plugin("presetA", <<>>)>>),
       inputSourceMap |-> Def(TRUE)] }

\* lines 182-231: babel-loader calls config with its configuration and the custom options
Config(p) ==
    /\ calls[p].pc = "done"
    /\ \E configuration \in Configurations :
       calls' = [calls EXCEPT
                   ![p].pc = "configured",
                   ![p].configuration = configuration,
                   ![p].options =
                       [plugins |-> ConfigPlugins(configuration.plugins, calls[p].custom),
                        presets |-> ConfigPresets(configuration.presets, calls[p].custom),
                        inputSourceMap |-> Truthy(configuration.inputSourceMap)]]
    /\ UNCHANGED <<needsLinking, linkerPluginCreator, i18nPluginCreators, loadCount,
                   loadFailed>>


(***************************************************************************)
(* Spec: NumCalls invocations of customOptions run concurrently and share   *)
(* the caches.                                                             *)
(***************************************************************************)
Next ==
    \E p \in Procs :
       \/ Start(p, CacheInputs)
       \/ DetectorLoaded(p)
       \/ DetectorLoadFailed(p)
       \/ AfterLinking(p)
       \/ FactoryLoaded(p)
       \/ FactoryLoadFailed(p)
       \/ I18nLoaded(p)
       \/ I18nLoadFailed(p)

Spec == Init /\ [][Next]_vars

(***************************************************************************)
(* SpecOptions: one invocation of customOptions and then config, over      *)
(* every input, from empty caches.                                         *)
(***************************************************************************)
NextOptions ==
    \/ Start(1, OptionInputs)
    \/ DetectorLoaded(1)
    \/ DetectorLoadFailed(1)
    \/ AfterLinking(1)
    \/ FactoryLoaded(1)
    \/ FactoryLoadFailed(1)
    \/ I18nLoaded(1)
    \/ I18nLoadFailed(1)
    \/ Config(1)

SpecOptions == Init /\ [][NextOptions]_vars


(***************************************************************************)
(* Properties.  The predicates on paths and options below are written from *)
(* the statements being checked, not from the operators above.             *)
(***************************************************************************)
Completed(c) == c.pc \in {"done", "configured"}

Started(c) == c.pc # "idle"

\* the path has a segment `first` directly followed by a segment among `seconds`
HasSegments(path, first, seconds) ==
    \E i \in 1..(Len(path) - 3) :
       /\ path[i] \in {"/", "\\"}
       /\ path[i + 1] = first
       /\ path[i + 2] \in {"/", "\\"}
       /\ path[i + 3] \in seconds
       /\ (i + 3 = Len(path) \/ path[i + 4] \in {"/", "\\"})

EndsWith(path, extensions) == path # <<>> /\ path[Len(path)] \in extensions

\* the path lies under a directory among `names`
UnderDirectory(path, names) ==
    \E i \in 1..(Len(path) - 2) :
       /\ path[i] \in {"/", "\\"}
       /\ path[i + 1] \in names
       /\ path[i + 2] \in {"/", "\\"}

\* the path lies under node_modules/@angular/
UnderAngularNamespace(path) ==
    \E i \in 1..(Len(path) - 4) :
       /\ path[i] \in {"/", "\\"}
       /\ path[i + 1] = "node_modules"
       /\ path[i + 2] \in {"/", "\\"}
       /\ path[i + 3] = "@angular"
       /\ path[i + 4] \in {"/", "\\"}

Contains(text, token) == \E i \in DOMAIN text : text[i] = token

\* the file is one the linker is asked about, and the linker says it needs linking
NeedsLinkingFile(c) ==
    /\ ~HasSegments(c.resourcePath, "@angular", {"compiler", "core"})
    /\ ~EndsWith(c.resourcePath, {".ts", ".tsx"})
    /\ Contains(c.source, "ngDeclare")

\* the file qualifies for localization inlining
QualifiesForLocalization(c) ==
    /\ c.i18n # Undefined
    /\ ~HasSegments(c.resourcePath, "@angular", {"compiler", "localize"})
    /\ Contains(c.source, "$localize")

ExtraPluginsNonEmpty(c) ==
    \E i \in DOMAIN c.rawOptions :
       /\ c.rawOptions[i][1] = "plugins"
       /\ c.rawOptions[i][2].kind = "array"
       /\ c.rawOptions[i][2].val # <<>>

CarriesBypass(c) ==
    \E i \in DOMAIN c.loader :
       c.loader[i] = <<"ignore", [kind |-> "array",
                                  val |-> <<[kind |-> "function", val |-> "() => true"]>>]>>

CacheKey(c) ==
    c.loader[CHOOSE i \in DOMAIN c.loader : c.loader[i][1] = "cacheIdentifier"][2].val

\* C1: when every concurrently started resolution is for a file that requires linking,
\* the detector capability is loaded exactly once and, once all of them have run, the
\* linking-transform-factory capability has been loaded exactly once
C1_EachCapabilityLoadedOnce ==
    (\A p \in Procs : Started(calls[p]) /\ NeedsLinkingFile(calls[p]))
    => /\ loadCount[LinkerModule] = 1
       /\ loadCount[LinkerBabelModule] <= 1
       /\ ((\A p \in Procs : calls[p].pc \in {"loadI18n", "done"})
             => loadCount[LinkerBabelModule] = 1)

\* C2 as stated: after customOptions completes, shouldProcess is true iff extraPlugins
\* is non-empty, or linking is enabled, or forceAsyncTransformation, or forceES5, or the
\* caller supplied a localization config, or the caller requested optimize; and the
\* loader options carry the ignore-everything bypass exactly when shouldProcess is false
C2_ShouldProcessIffRequested ==
    \A p \in Procs :
       Completed(calls[p]) =>
          /\ calls[p].shouldProcess <=>
                \/ ExtraPluginsNonEmpty(calls[p])
                \/ calls[p].custom.angularLinker # Undefined
                \/ calls[p].custom.forceAsyncTransformation
                \/ calls[p].custom.forceES5
                \/ calls[p].i18n # Undefined
                \/ calls[p].optimize = <<TRUE>>
          /\ CarriesBypass(calls[p]) <=> ~calls[p].shouldProcess

\* C2 amended: as C2, with "the caller supplied a localization config" replaced by
\* "the file qualifies for localization inlining, so that the localization config is
\* attached to the resolved options"
C2_ShouldProcessIffContribution ==
    \A p \in Procs :
       Completed(calls[p]) =>
          /\ calls[p].shouldProcess <=>
                \/ ExtraPluginsNonEmpty(calls[p])
                \/ calls[p].custom.angularLinker # Undefined
                \/ calls[p].custom.forceAsyncTransformation
                \/ calls[p].custom.forceES5
                \/ calls[p].custom.i18n # Undefined
                \/ calls[p].optimize = <<TRUE>>
          /\ calls[p].custom.i18n # Undefined <=>
                /\ calls[p].i18n # Undefined
                /\ Contains(calls[p].source, "$localize")
                /\ ~\E i \in 1..(Len(calls[p].resourcePath) - 3) :
                      /\ calls[p].resourcePath[i] \in {"/", "\\"}
                      /\ calls[p].resourcePath[i + 1] = "@angular"
                      /\ calls[p].resourcePath[i + 2] \in {"/", "\\"}
                      /\ calls[p].resourcePath[i + 3] \in {"compiler", "localize"}
          /\ CarriesBypass(calls[p]) <=> ~calls[p].shouldProcess

\* a localization config was supplied for a file without the $localize marker and
\* nothing else applies: the file is bypassed
C2_Witness ==
    \E p \in Procs :
       /\ Completed(calls[p])
       /\ calls[p].i18n # Undefined
       /\ ~Contains(calls[p].source, "$localize")
       /\ ~calls[p].shouldProcess
       /\ CarriesBypass(calls[p])

\* C3: once a load of the detector or of the linking-transform factory has failed, no
\* later step attempts a load of that capability again
C3_NoLoadAfterFailedLoad ==
    [][\A m \in {LinkerModule, LinkerBabelModule} :
          loadFailed[m] => loadCount'[m] = loadCount[m]]_vars

\* C4: a qualifying file whose load of the locale plugin creators failed completes with
\* shouldProcess true and the localization config attached with undefined plugin
\* creators; the failed load leaves the cached handle undefined; a qualifying file
\* skips the load only when the handle is cached; once the handle is cached no load is
\* attempted
C4_LocaleLoadFailureSwallowed ==
    /\ [](\A p \in Procs :
            (Completed(calls[p]) /\ QualifiesForLocalization(calls[p])
               /\ calls[p].i18nLoadFailed)
            => /\ calls[p].shouldProcess
               /\ calls[p].custom.i18n # Undefined
               /\ \A i \in DOMAIN calls[p].custom.i18n[1] :
                     calls[p].custom.i18n[1][i][1] = "i18nPluginCreators"
                        => calls[p].custom.i18n[1][i][2].kind = "undefined")
    /\ [][\A p \in Procs :
            /\ (~calls[p].i18nLoadFailed /\ calls'[p].i18nLoadFailed)
                  => i18nPluginCreators' = Undefined
            /\ (~Completed(calls[p]) /\ Completed(calls'[p])
                  /\ QualifiesForLocalization(calls'[p]) /\ calls[p].pc # "loadI18n")
                  => i18nPluginCreators # Undefined
            /\ i18nPluginCreators # Undefined
                  => loadCount'[LocalizeToolsModule] = loadCount[LocalizeToolsModule]]_vars

\* C5 as stated: forceAsyncTransformation is true iff targetLevel is specified, and
\* targetLevel >= ES2017 or the path ends in .js, .cjs or .mjs, and the source contains
\* 'async', and the path is not under an esm2015, fesm2015 or _esm2015 directory
C5_ForceAsyncIffFourConditions ==
    \A p \in Procs :
       Completed(calls[p]) =>
          (calls[p].custom.forceAsyncTransformation <=>
             /\ calls[p].scriptTarget # Undefined
             /\ (calls[p].scriptTarget[1] >= ES2017
                   \/ EndsWith(calls[p].resourcePath, {".js", ".cjs", ".mjs"}))
             /\ Contains(calls[p].source, "async")
             /\ ~UnderDirectory(calls[p].resourcePath, {"esm2015", "fesm2015", "_esm2015"}))

\* C5 amended: as C5, and targetLevel is not below ES2015
C5_ForceAsyncIffNotES5 ==
    \A p \in Procs :
       Completed(calls[p]) =>
          (calls[p].custom.forceAsyncTransformation <=>
             /\ calls[p].scriptTarget # Undefined
             /\ calls[p].scriptTarget[1] >= ES2015
             /\ (calls[p].scriptTarget[1] >= ES2017
                   \/ EndsWith(calls[p].resourcePath, {".js", ".cjs", ".mjs"}))
             /\ Contains(calls[p].source, "async")
             /\ ~UnderDirectory(calls[p].resourcePath, {"esm2015", "fesm2015", "_esm2015"}))

\* a plain-JS file with 'async' at target ES5: forceES5 is set and
\* forceAsyncTransformation is not
C5_Witness ==
    \E p \in Procs :
       /\ Completed(calls[p])
       /\ calls[p].scriptTarget = <<ES5>>
       /\ EndsWith(calls[p].resourcePath, {".js", ".cjs", ".mjs"})
       /\ Contains(calls[p].source, "async")
       /\ ~UnderDirectory(calls[p].resourcePath, {"esm2015", "fesm2015", "_esm2015"})
       /\ ~calls[p].custom.forceAsyncTransformation
       /\ calls[p].custom.forceES5

\* C6: for a path with an @angular/compiler or @angular/core segment, or ending in .ts
\* or .tsx, requiresLinking returns false, the detector is not invoked and no load of
\* the detector capability is requested, whatever the source and the caches
C6_SkippedPathsNeverReachDetector ==
    \A p \in Procs :
       (Started(calls[p])
          /\ (HasSegments(calls[p].resourcePath, "@angular", {"compiler", "core"})
                \/ EndsWith(calls[p].resourcePath, {".ts", ".tsx"})))
       => /\ ~calls[p].detectorCalled
          /\ ~calls[p].detectorLoadRequested
          /\ ~calls[p].linkResult
          /\ calls[p].pc # "loadDetector"
          /\ calls[p].custom.angularLinker = Undefined

\* the detector is cached, and a .tsx file holding a partial declaration has been
\* through requiresLinking
C6_Witness ==
    /\ needsLinking # Undefined
    /\ \E p \in Procs :
          /\ calls[p].pc = "awaitLinking"
          /\ EndsWith(calls[p].resourcePath, {".tsx"})
          /\ Contains(calls[p].source, "ngDeclare")

\* C7: forceES5 is true iff targetLevel is specified and below ES2015
C7_ForceES5IffBelowES2015 ==
    \A p \in Procs :
       Completed(calls[p]) =>
          (calls[p].custom.forceES5 <=>
             (calls[p].scriptTarget # Undefined /\ calls[p].scriptTarget[1] < ES2015))

\* target ES2015 on a plain-JS file with 'async': forceAsyncTransformation without forceES5
C7_Witness ==
    \E p \in Procs :
       /\ Completed(calls[p])
       /\ calls[p].scriptTarget = <<ES2015>>
       /\ calls[p].custom.forceAsyncTransformation
       /\ ~calls[p].custom.forceES5

\* C8: when optimize is requested, looseEnums and pureTopLevel are both true for a path
\* under node_modules/@angular/ and both false otherwise, and wrapDecorators is true iff
\* the module is marked side-effect-free; when it is not requested there are no
\* optimize flags
C8_OptimizeFlags ==
    \A p \in Procs :
       Completed(calls[p]) =>
          IF calls[p].optimize = <<TRUE>>
          THEN /\ calls[p].custom.optimize # Undefined
               /\ calls[p].custom.optimize[1].looseEnums
                     = UnderAngularNamespace(calls[p].resourcePath)
               /\ calls[p].custom.optimize[1].pureTopLevel
                     = UnderAngularNamespace(calls[p].resourcePath)
               /\ calls[p].custom.optimize[1].wrapDecorators
                     = (calls[p].sideEffectFree = <<TRUE>>)
          ELSE calls[p].custom.optimize = Undefined

\* optimize is requested for a side-effect-free module outside node_modules/@angular/
C8_Witness ==
    \E p \in Procs :
       /\ Completed(calls[p])
       /\ calls[p].optimize = <<TRUE>>
       /\ calls[p].sideEffectFree = <<TRUE>>
       /\ ~UnderAngularNamespace(calls[p].resourcePath)
       /\ calls[p].custom.optimize # Undefined
       /\ calls[p].custom.optimize[1].wrapDecorators
       /\ ~calls[p].custom.optimize[1].looseEnums

\* C9: config keeps the existing plugins in order and appends the pure-top-level
\* annotator (if pureTopLevel), metadata elision, enum adjustment (looseEnums) and
\* static-class-member adjustment (wrapDecorators) when optimize is present, nothing
\* otherwise; it keeps the existing presets and appends the application preset last
C9_StagesAppendedInOrder ==
    \A p \in Procs :
       calls[p].pc = "configured" =>
          LET before == IF calls[p].configuration.plugins = Undefined THEN <<>>
                        ELSE calls[p].configuration.plugins[1]
              after == calls[p].options.plugins
              added == SubSeq(after, Len(before) + 1, Len(after))
              optimize == calls[p].custom.optimize
              presetsBefore == IF calls[p].configuration.presets = Undefined THEN <<>>
                               ELSE calls[p].configuration.presets[1]
              presetsAfter == calls[p].options.presets
          IN  /\ Len(after) >= Len(before)
              /\ SubSeq(after, 1, Len(before)) = before
              /\ IF optimize = Undefined THEN added = <<>>
                 ELSE LET tail == SubSeq(added, Len(added) - 2, Len(added))
                      IN  /\ Len(added) = (IF optimize[1].pureTopLevel THEN 4 ELSE 3)
                          /\ optimize[1].pureTopLevel
                                => added[1] = [plugin |-> "./plugins/pure-toplevel-functions",
                                               options |-> <<>>]
                          /\ tail[1] = [plugin |-> "./plugins/elide-angular-metadata",
                                        options |-> <<>>]
                          /\ tail[2] = [plugin |-> "./plugins/adjust-typescript-enums",
                                        options |-> << <<"loose", optimize[1].looseEnums>> >>]
                          /\ tail[3] = [plugin |-> "./plugins/adjust-static-class-members",
                                        options |->
                                          << <<"wrapDecorators",
                                               optimize[1].wrapDecorators>> >>]
              /\ Len(presetsAfter) = Len(presetsBefore) + 1
              /\ SubSeq(presetsAfter, 1, Len(presetsBefore)) = presetsBefore
              /\ presetsAfter[Len(presetsAfter)].plugin = "./presets/application"

\* config has run on a non-empty plugin list for an @angular package with optimize on
C9_Witness ==
    \E p \in Procs :
       /\ calls[p].pc = "configured"
       /\ calls[p].configuration.plugins # Undefined
       /\ Len(calls[p].configuration.plugins[1]) = 2
       /\ calls[p].configuration.presets # Undefined
       /\ calls[p].custom.optimize # Undefined
       /\ calls[p].custom.optimize[1].pureTopLevel
       /\ Len(calls[p].options.plugins) = 6

\* C10: two completed resolutions have the same cache key iff they have the same
\* resolved options and the same raw caller options (the version identifier and the
\* base options are the same for all)
C10_CacheKeyTellsInputsApart ==
    \A p, q \in Procs :
       (calls[p].pc = "done" /\ calls[q].pc = "done")
       => ((calls[p].custom = calls[q].custom /\ calls[p].rawOptions = calls[q].rawOptions)
             <=> CacheKey(calls[p]) = CacheKey(calls[q]))

=============================================================================
